---- MODULE Spec2Model ----
(***************************************************************************)
(* Model of redouble_and_convert2ipa.py: tokenize, tokens2string,          *)
(* redouble and convert2ipa, driven by a caller that chains them.          *)
(*                                                                         *)
(* Strings are TLA+ strings.  A code point outside ASCII is written as     *)
(* its four hex digits in braces: U+0251 U+02D0 is "{0251}{02D0}".        *)
(* Python lists are objects: heap[r] is the content of the list with       *)
(* reference r, and two names that hold the same r are the same list.      *)
(* Indices i and end are 0-based as in the source; heap[r][i+1] is         *)
(* Python's r[i].                                                          *)
(***************************************************************************)
EXTENDS Integers, Sequences, FiniteSets, TLC

VARIABLES
    pc,         \* where control is: a caller position, a loop, or an exception
    word,       \* the caller's word ("" when the caller starts from tokens)
    calls,      \* the functions called so far, in order
    heap,       \* the list objects: reference -> sequence of strings
    tokens,     \* caller: reference of its token list (0: none yet)
    cur,        \* caller: reference returned by the latest redouble (0: none)
    lword,      \* tokenize: word after word = word.lower()
    end,        \* tokenize: end
    tokResult,  \* tokenize: result (reference)
    graphemes,  \* redouble: the parameter graphemes (reference)
    result,     \* redouble: result (reference)
    i,          \* redouble: i
    ipaOut,     \* caller: reference returned by convert2ipa (0: none)
    out,        \* caller: string returned by tokens2string
    argBefore,  \* history: content of redouble's argument when it was called
    orig,       \* history: content of the argument of the first redouble call
    r1,         \* history: content returned by the first redouble call
    examined1,  \* history: cursor positions the first redouble call examined
    last,       \* history: the latest iteration of redouble's loop
    ipaArg,     \* history: reference and content of convert2ipa's argument
    joinArg     \* history: content of tokens2string's argument

vars == <<pc, word, calls, heap, tokens, cur, lword, end, tokResult, graphemes,
          result, i, ipaOut, out, argBefore, orig, r1, examined1, last, ipaArg,
          joinArg>>

----------------------------------------------------------------------------
(* Bounds of the exploration *)

MaxWordLen == 4
MaxToks == 4
MaxPasses == 2

WordChars == {"n", "g", "w", "a", "G", "7"}
SmallTokens == {"l", "n", "t", "ll", "a", "*"}
ExampleWord == "aangkegtat"
GreedyWord == "ngngwaa"

RECURSIVE StringsUpTo(_, _)
StringsUpTo(S, n) ==
    IF n = 0 THEN {""}
    ELSE LET P == StringsUpTo(S, n - 1) IN P \cup {w \o c : w \in P, c \in S}

RECURSIVE SeqsUpTo(_, _)
SeqsUpTo(S, n) ==
    IF n = 0 THEN {<<>>}
    ELSE LET P == SeqsUpTo(S, n - 1) IN P \cup {Append(t, x) : t \in P, x \in S}

Range(s) == {s[k] : k \in 1..Len(s)}

----------------------------------------------------------------------------
(* tokenize *)

GRAPHEMES_ShortFirst ==
    << "z", "y", "w", "v", "u", "t", "s", "r", "q", "p", "n", "m", "l", "k",
       "i", "h", "g", "f", "e", "a", "uu", "ii", "aa", "wh", "rr", "qw", "nn",
       "ng", "mm", "ll", "kw", "gh", "gg", "ngw", "ghw", "ghh", "ghhw",
       "ngng", "ngngw" >>

GRAPHEMES ==
    << "ngngw", "ngng", "ghhw", "ghh", "ghw", "ngw", "gg", "gh", "kw", "ll",
       "mm", "ng", "nn", "qw", "rr", "wh", "aa", "ii", "uu", "a", "e", "f",
       "g", "h", "i", "k", "l", "m", "n", "p", "q", "r", "s", "t", "u", "v",
       "w", "y", "z" >>

UpperCase == "ABCDEFGHIJKLMNOPQRSTUVWXYZ"
LowerCase == "abcdefghijklmnopqrstuvwxyz"

LowerChar(c) ==
    LET K == {k \in 1..Len(UpperCase) : SubSeq(UpperCase, k, k) = c}
    IN  IF K = {} THEN c ELSE LET k == CHOOSE k \in K : TRUE
                              IN  SubSeq(LowerCase, k, k)

RECURSIVE lower(_)
lower(w) ==
    IF Len(w) = 0 THEN ""
    ELSE lower(SubSeq(w, 1, Len(w) - 1)) \o LowerChar(SubSeq(w, Len(w), Len(w)))

\* w.endswith(g, 0, e)
endswith(w, g, e) == Len(g) <= e /\ SubSeq(w, e - Len(g) + 1, e) = g

\* the for loop: index of the first grapheme that matches, 0 when none does
FoundGrapheme(w, e) ==
    LET K == {k \in 1..Len(GRAPHEMES) : endswith(w, GRAPHEMES[k], e)}
    IN  IF K = {} THEN 0 ELSE CHOOSE k \in K : \A m \in K : k <= m

\* word[end-1:], the end of the slice forgotten
FallbackTokenNoEnd(w, e) == SubSeq(w, e, Len(w))

\* word[end-1:end]
FallbackToken(w, e) == SubSeq(w, e, e)

TokenizeCall ==
    /\ pc = "tokenize"
    /\ lword' = lower(word)
    /\ heap' = Append(heap, <<>>)
    /\ tokResult' = Len(heap) + 1
    /\ end' = Len(lword')
    /\ calls' = Append(calls, "tokenize")
    /\ pc' = "tokenize_loop"
    /\ UNCHANGED <<word, tokens, cur, graphemes, result, i, ipaOut, out,
                   argBefore, orig, r1, examined1, last, ipaArg, joinArg>>

TokenizeStep ==
    /\ pc = "tokenize_loop"
    /\ end > 0
    /\ LET k == FoundGrapheme(lword, end)
           tok == IF k # 0 THEN GRAPHEMES[k] ELSE FallbackToken(lword, end)
       IN  /\ heap' = [heap EXCEPT ![tokResult] = <<tok>> \o @]
           /\ end' = IF k # 0 THEN end - Len(tok) ELSE end - 1
    /\ UNCHANGED <<pc, word, calls, tokens, cur, lword, tokResult, graphemes,
                   result, i, ipaOut, out, argBefore, orig, r1, examined1,
                   last, ipaArg, joinArg>>

TokenizeReturn ==
    /\ pc = "tokenize_loop"
    /\ end <= 0
    /\ tokens' = tokResult
    /\ pc' = "tokenized"
    /\ UNCHANGED <<word, calls, heap, cur, lword, end, tokResult, graphemes,
                   result, i, ipaOut, out, argBefore, orig, r1, examined1,
                   last, ipaArg, joinArg>>

----------------------------------------------------------------------------
(* tokens2string *)

RECURSIVE tokens2string(_)
tokens2string(t) ==
    IF Len(t) = 0 THEN "" ELSE tokens2string(SubSeq(t, 1, Len(t) - 1)) \o t[Len(t)]

----------------------------------------------------------------------------
(* redouble *)

DOUBLED_FRICATIVE == {"ll", "rr", "gg", "ghh", "ghhw"}

DOUBLEABLE_FRICATIVE_NoG == {"l", "r", "gh", "ghw"}

DOUBLEABLE_FRICATIVE == {"l", "r", "g", "gh", "ghw"}

DOUBLEABLE_NASAL == {"n", "m", "ng", "ngw"}

UNDOUBLEABLE_UNVOICED_CNS_WithLl ==
    {"p", "t", "k", "kw", "q", "qw", "f", "s", "wh", "ll"}

UNDOUBLEABLE_UNVOICED_CNS == {"p", "t", "k", "kw", "q", "qw", "f", "s", "wh"}

double_TypoL ==
    ("l" :> "l") @@ ("r" :> "rr") @@ ("g" :> "gg") @@ ("gh" :> "ghh") @@
    ("ghw" :> "ghhw") @@ ("n" :> "nn") @@ ("m" :> "mm") @@ ("ng" :> "ngng") @@
    ("ngw" :> "ngngw")

double_NoNgw ==
    ("l" :> "ll") @@ ("r" :> "rr") @@ ("g" :> "gg") @@ ("gh" :> "ghh") @@
    ("ghw" :> "ghhw") @@ ("n" :> "nn") @@ ("m" :> "mm") @@ ("ng" :> "ngng")

double ==
    ("l" :> "ll") @@ ("r" :> "rr") @@ ("g" :> "gg") @@ ("gh" :> "ghh") @@
    ("ghw" :> "ghhw") @@ ("n" :> "nn") @@ ("m" :> "mm") @@ ("ng" :> "ngng") @@
    ("ngw" :> "ngngw")

Rule1A(first, second) ==
    first \in DOUBLEABLE_FRICATIVE /\ second \in UNDOUBLEABLE_UNVOICED_CNS

Rule1B(first, second) ==
    first \in UNDOUBLEABLE_UNVOICED_CNS /\ second \in DOUBLEABLE_FRICATIVE

Rule2(first, second) ==
    first \in UNDOUBLEABLE_UNVOICED_CNS /\ second \in DOUBLEABLE_NASAL

Rule3A(first, second) ==
    /\ first \in DOUBLED_FRICATIVE
    /\ (second \in DOUBLEABLE_FRICATIVE \/ second \in DOUBLEABLE_NASAL)

Rule3B(first, second) ==
    first \in DOUBLEABLE_FRICATIVE /\ second = "ll"

\* the if / elif chain: the branch taken for the pair (first, second)
Branch(first, second) ==
    IF Rule1A(first, second) THEN "1A"
    ELSE IF Rule1B(first, second) THEN "1B"
    ELSE IF Rule2(first, second) THEN "2"
    ELSE IF Rule3A(first, second) THEN "3A"
    ELSE IF Rule3B(first, second) THEN "3B"
    ELSE "else"

\* the index the branch assigns to: result[i] or result[i+1]
Target(branch, j) == IF branch \in {"1A", "3B"} THEN j ELSE j + 1

\* the amount the branch adds to i
Advance(branch) == IF branch = "else" THEN 1 ELSE 2

Passes == Cardinality({k \in 1..Len(calls) : calls[k] = "redouble"})

NoIteration == [i |-> -1, first |-> "", second |-> "", branch |-> "-"]

RedoubleCall ==
    /\ pc \in {"tokenized", "redoubled"}
    /\ Passes < MaxPasses
    /\ graphemes' = (IF cur # 0 THEN cur ELSE tokens)
    /\ result' = graphemes'
    /\ i' = 0
    /\ calls' = Append(calls, "redouble")
    /\ argBefore' = heap[graphemes']
    /\ orig' = (IF Passes = 0 THEN heap[graphemes'] ELSE orig)
    /\ last' = NoIteration
    /\ pc' = "redouble_loop"
    /\ UNCHANGED <<word, heap, tokens, cur, lword, end, tokResult, ipaOut,
                   out, r1, examined1, ipaArg, joinArg>>

RedoubleStep ==
    /\ pc = "redouble_loop"
    /\ i + 1 < Len(heap[result])
    /\ LET first == heap[result][i + 1]
           second == heap[result][i + 2]
           branch == Branch(first, second)
           target == Target(branch, i)
           old == heap[result][target + 1]
       IN  /\ last' = [i |-> i, first |-> first, second |-> second,
                       branch |-> branch]
           /\ examined1' = (IF Passes = 1 THEN examined1 \cup {i} ELSE examined1)
           /\ IF branch = "else"
              THEN /\ i' = i + Advance(branch)
                   /\ UNCHANGED <<pc, heap>>
              ELSE IF old \notin DOMAIN double
              THEN /\ pc' = "KeyError"
                   /\ UNCHANGED <<i, heap>>
              ELSE /\ heap' = [heap EXCEPT ![result][target + 1] = double[old]]
                   /\ i' = i + Advance(branch)
                   /\ UNCHANGED pc
    /\ UNCHANGED <<word, calls, tokens, cur, lword, end, tokResult, graphemes,
                   result, ipaOut, out, argBefore, orig, r1, ipaArg, joinArg>>

RedoubleReturn ==
    /\ pc = "redouble_loop"
    /\ ~(i + 1 < Len(heap[result]))
    /\ cur' = result
    /\ r1' = (IF Passes = 1 THEN heap[result] ELSE r1)
    /\ pc' = "redoubled"
    /\ UNCHANGED <<word, calls, heap, tokens, lword, end, tokResult, graphemes,
                   result, i, ipaOut, out, argBefore, orig, examined1, last,
                   ipaArg, joinArg>>
----------------------------------------------------------------------------
(* convert2ipa *)

ipa_GgVoiced ==
    ("i" :> "i") @@ ("a" :> "{0251}") @@ ("u" :> "u") @@ ("e" :> "{0259}") @@
    ("ii" :> "i{02D0}") @@ ("aa" :> "{0251}{02D0}") @@ ("uu" :> "u{02D0}") @@
    ("p" :> "p") @@ ("t" :> "t") @@ ("k" :> "k") @@ ("kw" :> "k{02B7}") @@
    ("q" :> "q") @@ ("qw" :> "q{02B7}") @@
    ("v" :> "v") @@ ("l" :> "l") @@ ("z" :> "z") @@ ("y" :> "j") @@
    ("r" :> "{0279}") @@ ("g" :> "{0263}") @@ ("w" :> "{0263}{02B7}") @@
    ("gh" :> "{0281}") @@ ("ghw" :> "{0281}{02B7}") @@
    ("f" :> "f") @@ ("ll" :> "{026C}") @@ ("s" :> "s") @@ ("rr" :> "{0282}") @@
    ("gg" :> "{0263}") @@ ("wh" :> "x{02B7}") @@ ("ghh" :> "{03C7}") @@
    ("ghhw" :> "{03C7}{02B7}") @@ ("h" :> "h") @@
    ("m" :> "m") @@ ("n" :> "n") @@ ("ng" :> "{014B}") @@
    ("ngw" :> "{014B}{02B7}") @@
    ("mm" :> "m{0325}") @@ ("nn" :> "n{0325}") @@ ("ngng" :> "{014B}{030A}") @@
    ("ngngw" :> "{014B}{030A}{02B7}")

ipa ==
    ("i" :> "i") @@ ("a" :> "{0251}") @@ ("u" :> "u") @@ ("e" :> "{0259}") @@
    ("ii" :> "i{02D0}") @@ ("aa" :> "{0251}{02D0}") @@ ("uu" :> "u{02D0}") @@
    ("p" :> "p") @@ ("t" :> "t") @@ ("k" :> "k") @@ ("kw" :> "k{02B7}") @@
    ("q" :> "q") @@ ("qw" :> "q{02B7}") @@
    ("v" :> "v") @@ ("l" :> "l") @@ ("z" :> "z") @@ ("y" :> "j") @@
    ("r" :> "{0279}") @@ ("g" :> "{0263}") @@ ("w" :> "{0263}{02B7}") @@
    ("gh" :> "{0281}") @@ ("ghw" :> "{0281}{02B7}") @@
    ("f" :> "f") @@ ("ll" :> "{026C}") @@ ("s" :> "s") @@ ("rr" :> "{0282}") @@
    ("gg" :> "x") @@ ("wh" :> "x{02B7}") @@ ("ghh" :> "{03C7}") @@
    ("ghhw" :> "{03C7}{02B7}") @@ ("h" :> "h") @@
    ("m" :> "m") @@ ("n" :> "n") @@ ("ng" :> "{014B}") @@
    ("ngw" :> "{014B}{02B7}") @@
    ("mm" :> "m{0325}") @@ ("nn" :> "n{0325}") @@ ("ngng" :> "{014B}{030A}") @@
    ("ngngw" :> "{014B}{030A}{02B7}")

\* a variant that removes every '*', not only a final one
StripEveryMarker(t) ==
    LET RECURSIVE keep(_)
        keep(s) == IF Len(s) = 0 THEN <<>>
                   ELSE IF Head(s) = "*" THEN keep(Tail(s))
                   ELSE <<Head(s)>> \o keep(Tail(s))
    IN  keep(t)

\* if graphemes[-1] == '*': graphemes = graphemes[0:-1]   (t is not empty)
StripMarker(t) == IF t[Len(t)] = "*" THEN SubSeq(t, 1, Len(t) - 1) ELSE t

\* the for loop over the working sequence
MapIpa(t) == [j \in 1..Len(t) |-> IF t[j] \in DOMAIN ipa THEN ipa[t[j]] ELSE t[j]]

Convert2ipa ==
    /\ pc \in {"tokenized", "redoubled"}
    /\ \E arg \in {tokens, cur} \ {0} :
          /\ ipaArg' = [ref |-> arg, content |-> heap[arg]]
          /\ calls' = Append(calls, "convert2ipa")
          /\ IF Len(heap[arg]) = 0
             THEN \* graphemes[-1] of an empty list
                  /\ pc' = "IndexError"
                  /\ UNCHANGED <<heap, ipaOut>>
             ELSE /\ heap' = Append(heap, MapIpa(StripMarker(heap[arg])))
                  /\ ipaOut' = Len(heap) + 1
                  /\ pc' = "converted"
    /\ UNCHANGED <<word, tokens, cur, lword, end, tokResult, graphemes, result,
                   i, out, argBefore, orig, r1, examined1, last, joinArg>>

Tokens2string ==
    /\ pc \in {"tokenized", "redoubled", "converted"}
    /\ \E arg \in (IF pc = "converted" THEN {ipaOut} ELSE {tokens, cur} \ {0}) :
          /\ joinArg' = [ref |-> arg, content |-> heap[arg]]
          /\ out' = tokens2string(heap[arg])
    /\ calls' = Append(calls, "tokens2string")
    /\ pc' = "done"
    /\ UNCHANGED <<word, heap, tokens, cur, lword, end, tokResult, graphemes,
                   result, i, ipaOut, argBefore, orig, r1, examined1, last,
                   ipaArg>>

----------------------------------------------------------------------------
(* The caller: a word to tokenize, or a token list of its own *)

Tokens == Range(GRAPHEMES) \cup {"*", "7"}

Words == StringsUpTo(WordChars, MaxWordLen) \cup {ExampleWord, GreedyWord}

TokenSeqs ==
    SeqsUpTo(SmallTokens, MaxToks) \cup {<<x>> : x \in Tokens}
        \cup {<<x, y>> : x \in Tokens, y \in Tokens}

NoArg == [ref |-> 0, content |-> <<>>]

Init ==
    /\ \/ /\ word \in Words
          /\ pc = "tokenize"
          /\ heap = <<>>
          /\ tokens = 0
       \/ /\ word = ""
          /\ pc = "tokenized"
          /\ \E t \in TokenSeqs : heap = <<t>>
          /\ tokens = 1
    /\ calls = <<>>
    /\ cur = 0
    /\ lword = ""
    /\ end = 0
    /\ tokResult = 0
    /\ graphemes = 0
    /\ result = 0
    /\ i = 0
    /\ ipaOut = 0
    /\ out = ""
    /\ argBefore = <<>>
    /\ orig = <<>>
    /\ r1 = <<>>
    /\ examined1 = {}
    /\ last = NoIteration
    /\ ipaArg = NoArg
    /\ joinArg = NoArg

Next ==
    \/ TokenizeCall
    \/ TokenizeStep
    \/ TokenizeReturn
    \/ RedoubleCall
    \/ RedoubleStep
    \/ RedoubleReturn
    \/ Convert2ipa
    \/ Tokens2string

Spec == Init /\ [][Next]_vars
----------------------------------------------------------------------------
(* Properties *)

\* C1: joining the tokens of tokenize(w) gives lower(w), for every word w,
\* and tokenize("") is the empty list.
RoundTrip ==
    /\ (pc = "done" /\ calls = <<"tokenize", "tokens2string">>)
           => out = lower(word)
    /\ (pc = "tokenized" /\ calls = <<"tokenize">> /\ word = "")
           => heap[tokens] = <<>>

RoundTripWitness ==
    /\ pc = "done"
    /\ calls = <<"tokenize", "tokens2string">>
    /\ word = "nG7a"
    /\ joinArg.content = <<"ng", "7", "a">>
    /\ out = "ng7a"

\* C2: every token tokenize prepends is the longest grapheme of the inventory
\* that is a suffix of the part of the word not consumed before it, and the
\* single last character only when no grapheme is a suffix; tokenize("ngngwaa")
\* is ["ngngw", "aa"].
GreedyLongestMatch ==
    /\ (pc = "tokenize_loop" /\ Len(heap[tokResult]) > 0) =>
          LET h == Head(heap[tokResult])
              e0 == end + Len(h)
              S == {g \in Range(GRAPHEMES) : endswith(lword, g, e0)}
          IN  IF S # {}
              THEN h \in S /\ \A g \in S : Len(g) <= Len(h)
              ELSE h = SubSeq(lword, e0, e0)
    /\ (pc = "tokenized" /\ calls = <<"tokenize">> /\ word = GreedyWord)
           => heap[tokens] = <<"ngngw", "aa">>

GreedyLongestMatchWitness ==
    /\ pc = "tokenized"
    /\ calls = <<"tokenize">>
    /\ word = GreedyWord
    /\ heap[tokens] = <<"ngngw", "aa">>

\* C3: redouble never fails a lookup in the doubling table, keeps the length,
\* and leaves at every position the argument's token or its doubled form, the
\* latter only for a doubleable fricative or nasal.
RedoubleReplacesOnly ==
    /\ pc # "KeyError"
    /\ result # 0 =>
          /\ Len(heap[result]) = Len(argBefore)
          /\ \A j \in 1..Len(argBefore) :
                \/ heap[result][j] = argBefore[j]
                \/ /\ argBefore[j] \in {"l", "r", "g", "gh", "ghw",
                                        "n", "m", "ng", "ngw"}
                   /\ heap[result][j] = double[argBefore[j]]

RedoubleReplacesOnlyWitness ==
    /\ pc = "redoubled"
    /\ argBefore = <<"ll", "n", "t", "l">>
    /\ heap[result] = <<"ll", "nn", "t", "ll">>

\* C4: tokenize, redouble, convert2ipa and tokens2string on "aangkegtat" give
\* U+0251 U+02D0 U+014B k U+0259 x t U+0251 t.
IpaOfExample ==
    (/\ pc = "done"
     /\ word = ExampleWord
     /\ calls = <<"tokenize", "redouble", "convert2ipa", "tokens2string">>)
        => out = "{0251}{02D0}{014B}k{0259}xt{0251}t"

IpaOfExampleWitness ==
    /\ pc = "done"
    /\ word = ExampleWord
    /\ calls = <<"tokenize", "redouble", "convert2ipa", "tokens2string">>
    /\ ipaArg.content = <<"aa", "ng", "k", "e", "gg", "t", "a", "t">>
    /\ out = "{0251}{02D0}{014B}k{0259}xt{0251}t"

ConvertStripsAndMaps ==
    /\ pc = "IndexError" => ipaArg.content = <<>>
    /\ ipaOut # 0 =>
          LET t == ipaArg.content
              r == heap[ipaOut]
              n == IF t[Len(t)] = "*" THEN Len(t) - 1 ELSE Len(t)
          IN  /\ Len(t) > 0
              /\ Len(r) = n
              /\ \A j \in 1..n :
                    r[j] = IF t[j] \in DOMAIN ipa THEN ipa[t[j]] ELSE t[j]
              /\ t = <<"7">> => r = <<"7">>

ConvertStripsAndMapsWitness ==
    /\ pc = "converted"
    /\ ipaArg.content = <<"a", "*", "ll", "*">>
    /\ heap[ipaOut] = <<"{0251}", "*", "{026C}">>

\* C7: every function leaves its argument as it was: the list passed to
\* redouble has the content it had at the call, and so have the lists passed
\* to convert2ipa and tokens2string.
ArgumentsUnchanged ==
    /\ pc \in {"redouble_loop", "redoubled"} => heap[graphemes] = argBefore
    /\ ipaArg.ref # 0 => heap[ipaArg.ref] = ipaArg.content
    /\ joinArg.ref # 0 => heap[joinArg.ref] = joinArg.content

RuleHolds(r, x, y) ==
    CASE r = "1A" -> Rule1A(x, y)
      [] r = "1B" -> Rule1B(x, y)
      [] r = "2" -> Rule2(x, y)
      [] r = "3A" -> Rule3A(x, y)
      [] r = "3B" -> Rule3B(x, y)

\* C8: at most one of the five rule predicates holds of a pair the cursor
\* examines, and an iteration changes at most one of the pair's two tokens.
RulesExclusive ==
    /\ (pc = "redouble_loop" /\ i + 1 < Len(heap[result])) =>
          Cardinality({r \in {"1A", "1B", "2", "3A", "3B"} :
              RuleHolds(r, heap[result][i + 1], heap[result][i + 2])}) <= 1
    /\ (result # 0 /\ last.i >= 0) =>
          \/ heap[result][last.i + 1] = last.first
          \/ heap[result][last.i + 2] = last.second

RulesExclusiveWitness ==
    /\ pc = "redouble_loop"
    /\ last.first = "l"
    /\ last.second = "ll"
    /\ last.branch = "3B"
    /\ heap[result][last.i + 1] = "ll"

FiredInSecondPass == Passes = 2 /\ last.branch \notin {"-", "else"}

MutatedByFirstPass(j) == r1[j + 1] # orig[j + 1]

\* C9 as stated: a rule fires in a second pass only on a pair that contains a
\* token the first pass changed.
SecondPassOnlyOnChangedPairs ==
    FiredInSecondPass =>
        MutatedByFirstPass(last.i) \/ MutatedByFirstPass(last.i + 1)

\* C9 amended: a rule fires in a second pass only on a pair that contains a
\* token the first pass changed, or on a pair the first pass never examined
\* because its cursor stepped over the pair's left token.
SecondPassOnlyOnNewPairs ==
    FiredInSecondPass =>
        \/ MutatedByFirstPass(last.i)
        \/ MutatedByFirstPass(last.i + 1)
        \/ last.i \notin examined1

SecondPassOnlyOnNewPairsWitness ==
    /\ FiredInSecondPass
    /\ orig = <<"l", "l", "t">>
    /\ r1 = <<"l", "ll", "t">>
    /\ last.i = 0
    /\ last.branch = "3B"
    /\ last.i \in examined1

\* C10: when the cursor examines a pair whose right token is 'll' and whose
\* left token is a doubleable fricative or a doubleable nasal, the left token
\* is replaced by its doubled form and the cursor advances by 2.
Rule3BDoublesFricativeOrNasal ==
    (/\ result # 0
     /\ last.second = "ll"
     /\ last.first \in {"l", "r", "g", "gh", "ghw", "n", "m", "ng", "ngw"})
        => /\ heap[result][last.i + 1] = double[last.first]
           /\ i = last.i + 2

====
